---- MODULE Spec2Model ----
(***************************************************************************)
(* Model of sunheart-core's two decision procedures:                       *)
(*   - .ai/evolution/threads.py   : EvolutionGoal / EvolutionThread /      *)
(*                                  SelfEvolvingThreads                     *)
(*   - .ai/protocols/harmonizer.py: ProtocolHarmonizer                      *)
(* A stored JSON document is modelled by the value it decodes to.          *)
(* Timestamps (datetime.now().isoformat()) are modelled by a clock that    *)
(* advances with every handler call; None is the timestamp 0.              *)
(***************************************************************************)
EXTENDS Integers, Sequences, FiniteSets, TLC

VARIABLES
    threadDoc,   \* the stored thread document (.ai/evolution/threads/<id>.json)
    activeIndex, \* .ai/evolution/active_threads.json: its "threads" entries
    now,         \* the wall clock read by datetime.datetime.now()
    last,        \* the last call made on the system: its arguments and result
    registry,    \* .ai/protocols/registry.json: the schema ids of "protocols"
    schemaFiles, \* .ai/protocols/schemas/<schema_id>.json, by schema_id
    primary,     \* .ai/protocols/primary_protocol.json: <<>> or <<document>>
    negLog,      \* .ai/protocols/negotiation_log.json: its "events"
    callers,     \* add_evolution_step calls in flight: position and loaded thread
    running_threads, \* SelfEvolvingThreads.running_threads: thread_id -> worker
    shutdown_flag,   \* SelfEvolvingThreads.shutdown_flag
    workers,     \* the threading.Thread objects running _evolution_loop
    starting     \* workers started by a start_thread_evolution not yet returned

procVars == <<callers, running_threads, shutdown_flag, workers, starting>>
threadVars == <<threadDoc, activeIndex, now, callers, running_threads,
                shutdown_flag, workers, starting>>
protocolVars == <<registry, schemaFiles, primary, negLog>>
vars == <<threadDoc, activeIndex, now, last, registry, schemaFiles, primary, negLog,
          callers, running_threads, shutdown_flag, workers, starting>>

(***************************************************************************)
(* Bounds of the model                                                     *)
(***************************************************************************)
MaxCalls == 3        \* handler calls explored after create_thread
MaxUsage == 5        \* usage reports explored, over all schemas
MaxLog == 3          \* events explored in the negotiation log
MaxRounds == 2       \* callback rounds explored per evolution worker

(***************************************************************************)
(* Values                                                                  *)
(***************************************************************************)
None == 0                        \* Python None for the timestamp fields
NoStatus == "None"               \* status argument left at its default
Statuses == {"pending", "in_progress", "completed", "blocked"}
StatusArgs == Statuses \cup {NoStatus}
GoalIds == {"g1", "g2"}          \* goal ids present in the thread
AbsentId == "gx"                 \* a goal id no goal of the thread has
IdArgs == GoalIds \cup {AbsentId}
ProgressArgs == {0, 50, 95, 100, 150}
AIs == {"ai1", "ai2"}
ThreadId == "thread_1"           \* the thread_id create_thread derived
\* goals_advanced lists: empty, one id, an id twice, two ids, an absent id
AdvancedArgs == {<<>>, <<"g1">>, <<"g2">>, <<"g1", "g1">>, <<"g1", "g2">>,
                 <<"gx">>, <<"g2", "gx">>}
StepIncrement == 10
PriorityArgs == {0, 5, 12}       \* priorities given to create_thread
SchedIds == <<"g1", "g2", "g3">> \* goal ids of the scheduling threads
SchedDeps == {<<>>, <<"g1">>, <<"g1", "g2">>, <<"gx">>, <<"g1", "gx">>}
NoGoalId == "no goal_id"          \* goal_data without a "goal_id" key
GoalNames == {"a", "b"}           \* names of the initial goals
\* goal_data of create_thread: named, with a supplied id or none
GoalDataArgs == [name : GoalNames, goal_id : {NoGoalId, "g1"},
                 priority : {5}, dependencies : {<<>>}]
\* the ids the goals of such a thread can have, and one they cannot
CreatedIds == {"g1"} \cup {"goal_" \o name : name \in GoalNames}
NoCall == [op |-> "none"]
Callers == {"c1", "c2"}          \* concurrent callers of add_evolution_step
Idle == [pc |-> "idle"]
Workers == {"w1", "w2"}          \* Thread objects start_thread_evolution can make
Unborn == [pc |-> "unborn", rounds |-> 0, ticks |-> 0]
Interval == 2                    \* evolution_interval, in one-second ticks
NotTracked == [id \in {} |-> id] \* running_threads = {}

\* Strings the code transforms are sequences of characters.
\* DEFAULT_PROTOCOL["schema_id"], "builder_core_standard_v1", shortened
DefaultId == <<"s", "t", "d", "_", "v", "1">>
DefaultCapabilities == <<"contribution_tracking", "multi_ai_discussion",
                         "evolution_tracking", "thread_management">>
NoId == <<>>                     \* no "schema_id" key / no primary (None)
UnknownId == <<"z">>             \* a schema id never registered
Harmonizer == "ProtocolHarmonizer"
NameArgs == {<<"A">>, <<"a">>, <<"B">>}
VersionArgs == {<<"1">>}
CapabilityArgs == {<<"c1">>, <<"c1", "c2">>}
CompatibilityArgs == {<<>>, <<DefaultId>>}
\* required_fields of register_protocol, in the order the code lists them
RequiredFields == <<"name", "version", "author", "description", "endpoints",
                    "message_format", "capabilities">>
AllFields == {RequiredFields[k] : k \in 1..Len(RequiredFields)}
EmptyFiles == [x \in {} |-> x]

\* Storage operations that can fail during a call: the collaborator raises,
\* get_file_content or create_or_update_file, for one kind of document
Reliable == {}
ThreadFaults == {"read_thread", "write_thread", "read_index", "write_index"}
ProtocolFaults == {"read_registry", "write_registry", "read_schema", "write_schema",
                   "read_primary", "write_primary", "read_log", "write_log"}

Min(a, b) == IF a < b THEN a ELSE b
Max(a, b) == IF a > b THEN a ELSE b

(***************************************************************************)
(* Storage access of both components                                       *)
(***************************************************************************)
\* _create_or_update_file: the stored document after the attempt; a failed
\* write is caught and logged, the document stays as it was
written(down, op, old, new) == IF op \in down THEN old ELSE new

\* _load_active_threads_index: the "threads" it returns (none on a failed read)
load_index(down, index) == IF "read_index" \in down THEN <<>> ELSE index

\* _load_registry: the "protocols" it returns (none on a failed read)
load_registry(down, reg) == IF "read_registry" \in down THEN <<>> ELSE reg

\* _load_file on the schema files: those it can load
load_schema_files(down, files) ==
    IF "read_schema" \in down THEN EmptyFiles ELSE files

\* _load_file on the primary pointer (None on a failed read)
load_primary(down, prim) == IF "read_primary" \in down THEN <<>> ELSE prim

\* _load_file on the negotiation log: its "events" (none on a failed read)
load_log(down, log) == IF "read_log" \in down THEN <<>> ELSE log

(***************************************************************************)
(* EvolutionGoal                                                           *)
(***************************************************************************)
\* EvolutionGoal.__init__: a new goal is pending, at 0%, with no stamps;
\* priority is clamped to 1..10.
NewGoal(goal_id, priority, dependencies, t) ==
    [goal_id |-> goal_id,
     priority |-> Min(10, Max(1, priority)),
     dependencies |-> dependencies,
     status |-> "pending",
     progress |-> 0,
     started_at |-> None,
     completed_at |-> None,
     last_updated |-> t]

\* EvolutionGoal.update_progress(progress, status) at time t
update_progress_restamp(goal, progress, status, t) ==
    LET g1 == [goal EXCEPT !.progress = Min(100, Max(0, progress)),
                           !.status = IF status # NoStatus THEN status ELSE @,
                           !.last_updated = t]
    IN  IF progress = 100
        THEN [g1 EXCEPT !.status = "completed", !.completed_at = t]
        ELSE IF progress > 0 /\ g1.status = "pending"
        THEN [g1 EXCEPT !.status = "in_progress",
                        !.started_at = IF @ = None THEN t ELSE @]
        ELSE g1
update_progress_no_start(goal, progress, status, t) ==
    LET g1 == [goal EXCEPT !.progress = Min(100, Max(0, progress)),
                           !.status = IF status # NoStatus THEN status ELSE @,
                           !.last_updated = t]
    IN  IF progress = 100 /\ g1.status # "completed"
        THEN [g1 EXCEPT !.status = "completed", !.completed_at = t]
        ELSE IF progress > 0 /\ g1.status = "pending"
        THEN [g1 EXCEPT !.status = "in_progress"]
        ELSE g1
update_progress(goal, progress, status, t) ==
    LET g1 == [goal EXCEPT !.progress = Min(100, Max(0, progress)),
                           !.status = IF status # NoStatus THEN status ELSE @,
                           !.last_updated = t]
    IN  IF progress = 100 /\ g1.status # "completed"
        THEN [g1 EXCEPT !.status = "completed", !.completed_at = t]
        ELSE IF progress > 0 /\ g1.status = "pending"
        THEN [g1 EXCEPT !.status = "in_progress",
                        !.started_at = IF @ = None THEN t ELSE @]
        ELSE g1

(***************************************************************************)
(* EvolutionThread                                                         *)
(***************************************************************************)
\* Index of the first goal with this goal_id, 0 if there is none
FirstIndex(goals, goal_id) ==
    IF \E i \in 1..Len(goals) : goals[i].goal_id = goal_id
    THEN CHOOSE i \in 1..Len(goals) :
            /\ goals[i].goal_id = goal_id
            /\ \A j \in 1..(i - 1) : goals[j].goal_id # goal_id
    ELSE 0

\* EvolutionThread.update_goal_progress: the goals after the call
\* (the first goal with the id is updated; no goal with the id: unchanged)
thread_update_goal_progress(goals, goal_id, progress, status, t) ==
    LET i == FirstIndex(goals, goal_id)
    IN  IF i = 0 THEN goals
        ELSE [goals EXCEPT ![i] = update_progress(goals[i], progress, status, t)]

\* EvolutionThread.update_goal_progress: its return value
thread_update_found_always(goals, goal_id) == TRUE
thread_update_found(goals, goal_id) == FirstIndex(goals, goal_id) # 0

\* sorted(..., key=lambda g: g.priority, reverse=True) is stable: an element
\* goes behind every element whose priority is not lower than its own.
\* Goals are named by their position in thread.goals (object identity).
RECURSIVE InsertByPriority(_, _, _)
InsertByPriorityTiesFirst(goals, s, x) ==
    IF s = <<>> THEN <<x>>
    ELSE IF goals[Head(s)].priority > goals[x].priority
         THEN <<Head(s)>> \o InsertByPriority(goals, Tail(s), x)
         ELSE <<x>> \o s
InsertByPriority(goals, s, x) ==
    IF s = <<>> THEN <<x>>
    ELSE IF goals[Head(s)].priority >= goals[x].priority
         THEN <<Head(s)>> \o InsertByPriority(goals, Tail(s), x)
         ELSE <<x>> \o s

RECURSIVE sorted_by_priority(_, _)
sorted_by_priority(goals, s) ==
    IF s = <<>> THEN <<>>
    ELSE InsertByPriority(goals,
                          sorted_by_priority(goals, SubSeq(s, 1, Len(s) - 1)),
                          s[Len(s)])

\* [goal for goal in self.goals if goal.status == "in_progress"], from position i
RECURSIVE in_progress_goals(_, _)
in_progress_goals(goals, i) ==
    IF i > Len(goals) THEN <<>>
    ELSE (IF goals[i].status = "in_progress" THEN <<i>> ELSE <<>>)
         \o in_progress_goals(goals, i + 1)

\* {goal.goal_id for goal in self.goals if goal.status == "completed"}
completed_goals(goals) ==
    {goals[i].goal_id : i \in {j \in 1..Len(goals) : goals[j].status = "completed"}}

\* all(dep in completed_goals for dep in goal.dependencies)
dependencies_met_existing(goals, goal) ==
    \A k \in 1..Len(goal.dependencies) :
        (\E j \in 1..Len(goals) : goals[j].goal_id = goal.dependencies[k])
            => goal.dependencies[k] \in completed_goals(goals)
dependencies_met(goals, goal) ==
    \A k \in 1..Len(goal.dependencies) :
        goal.dependencies[k] \in completed_goals(goals)

\* the loop that fills next_goals, from position i
RECURSIVE next_goals(_, _)
next_goals_pending(goals, i) ==
    IF i > Len(goals) THEN <<>>
    ELSE (IF goals[i].status = "pending" THEN <<i>> ELSE <<>>)
         \o next_goals(goals, i + 1)
next_goals(goals, i) ==
    IF i > Len(goals) THEN <<>>
    ELSE (IF goals[i].status = "pending" /\ dependencies_met(goals, goals[i])
          THEN <<i>> ELSE <<>>)
         \o next_goals(goals, i + 1)

\* EvolutionThread.get_next_goals
get_next_goals_merged(goals) ==
    sorted_by_priority(goals, in_progress_goals(goals, 1) \o next_goals(goals, 1))
get_next_goals(goals) ==
    IF in_progress_goals(goals, 1) # <<>>
    THEN sorted_by_priority(goals, in_progress_goals(goals, 1))
    ELSE sorted_by_priority(goals, next_goals(goals, 1))

\* EvolutionThread.add_ai_participant
add_ai_participant(participants, ai_id) ==
    IF \E k \in 1..Len(participants) : participants[k] = ai_id
    THEN participants
    ELSE Append(participants, ai_id)

(***************************************************************************)
(* SelfEvolvingThreads                                                     *)
(***************************************************************************)
\* progress = min(100, goal.progress + 10)
StepProgressWrapping(p) == (p + StepIncrement) % 100
StepProgress(p) == Min(100, p + StepIncrement)

\* inner loop of add_evolution_step: for goal in thread.goals, from position i
RECURSIVE AdvanceMatches(_, _, _, _)
AdvanceMatches(goals, goal_id, i, t) ==
    IF i > Len(goals) THEN goals
    ELSE AdvanceMatches(
            IF goals[i].goal_id = goal_id
            THEN thread_update_goal_progress(goals, goal_id,
                     StepProgress(goals[i].progress), NoStatus, t)
            ELSE goals,
            goal_id, i + 1, t)

\* outer loop of add_evolution_step: for goal_id in goals_advanced
RECURSIVE AdvanceGoals(_, _, _)
AdvanceGoalsDistinct(goals, goals_advanced, t) ==
    IF goals_advanced = <<>> THEN goals
    ELSE IF \E k \in 2..Len(goals_advanced) : goals_advanced[k] = Head(goals_advanced)
    THEN AdvanceGoals(goals, Tail(goals_advanced), t)
    ELSE AdvanceGoals(AdvanceMatches(goals, Head(goals_advanced), 1, t),
                      Tail(goals_advanced), t)
AdvanceGoals(goals, goals_advanced, t) ==
    IF goals_advanced = <<>> THEN goals
    ELSE AdvanceGoals(AdvanceMatches(goals, Head(goals_advanced), 1, t),
                      Tail(goals_advanced), t)

\* add_evolution_step, lines 589-615, on the thread it loaded: the step is
\* appended, the participant added and the named goals advanced
evolved_completing(thread, goals_advanced, ai_participant, t) ==
    LET goals == AdvanceGoals(thread.goals, goals_advanced, t)
    IN  [thread EXCEPT
            !.steps = Append(@, t),
            !.last_evolution = t,
            !.ai_participants = add_ai_participant(@, ai_participant),
            !.goals = goals,
            !.status = IF \A i \in 1..Len(goals) : goals[i].status = "completed"
                       THEN "completed" ELSE @]
evolved(thread, goals_advanced, ai_participant, t) ==
    [thread EXCEPT
        !.steps = Append(@, t),
        !.last_evolution = t,
        !.ai_participants = add_ai_participant(@, ai_participant),
        !.goals = AdvanceGoals(@, goals_advanced, t)]

\* create_thread: the document of a new thread with its initial goals
NewThread(creator, goals) ==
    [status |-> "active",
     goals |-> goals,
     steps |-> <<>>,
     last_evolution |-> None,
     ai_participants |-> <<creator>>]

\* create_thread, lines 436-438: a goal given without "goal_id" gets
\* "goal_" + md5(name + "_" + thread_id)[:12]; within one thread the id is a
\* function of the goal's name, taken here without collisions between names
derived_goal_id(name) == "goal_" \o name

\* lines 434-442: EvolutionGoal.from_dict(goal_data), added to the thread
goal_from_dict(goal_data, t) ==
    NewGoal(IF goal_data.goal_id = NoGoalId
            THEN derived_goal_id(goal_data.name)
            ELSE goal_data.goal_id,
            goal_data.priority, goal_data.dependencies, t)

\* create_thread(name, description, creator, strategy, initial_goals): the
\* thread document it stores
create_thread(creator, initial_goals, t) ==
    NewThread(creator,
              [k \in 1..Len(initial_goals) |-> goal_from_dict(initial_goals[k], t)])

\* _update_active_threads_index on an index without the thread: its new entry
NewIndexEntry(thread_id, t) ==
    [thread_id |-> thread_id, status |-> "active", updated_at |-> t]

\* update_thread's rewrite of the index: the thread's first entry takes the
\* thread's status and the time; a thread not listed is appended
update_index(index, thread_id, status, t) ==
    IF \E k \in 1..Len(index) : index[k].thread_id = thread_id
    THEN LET k == CHOOSE k \in 1..Len(index) :
                     /\ index[k].thread_id = thread_id
                     /\ \A j \in 1..(k - 1) : index[j].thread_id # thread_id
         IN  [index EXCEPT ![k] = [@ EXCEPT !.status = status, !.updated_at = t]]
    ELSE Append(index, [thread_id |-> thread_id, status |-> status, updated_at |-> t])

\* SelfEvolvingThreads.__init__: no call in flight, nothing tracked, flag down
NoProcesses ==
    /\ callers = [c \in Callers |-> Idle]
    /\ running_threads = NotTracked
    /\ shutdown_flag = FALSE
    /\ workers = [w \in Workers |-> Unborn]
    /\ starting = {}

\* SelfEvolvingThreads.update_goal_progress(thread_id, goal_id, progress, status)
UpdateGoalProgress(goal_id, progress, status, down) ==
    /\ now <= MaxCalls
    /\ LET t == now + 1
           loaded == "read_thread" \notin down
           found == loaded /\ thread_update_found(threadDoc.goals, goal_id)
       IN  /\ threadDoc' =
                IF found
                THEN written(down, "write_thread", threadDoc,
                        [threadDoc EXCEPT !.goals =
                            thread_update_goal_progress(@, goal_id, progress, status, t)])
                ELSE threadDoc
           /\ activeIndex' =
                IF found
                THEN written(down, "write_index", activeIndex,
                        update_index(load_index(down, activeIndex), ThreadId,
                                     threadDoc.status, t))
                ELSE activeIndex
           /\ last' = [op |-> "update_goal_progress", goal_id |-> goal_id,
                       progress |-> progress, status |-> status,
                       down |-> down, result |-> found]
           /\ now' = t
           /\ UNCHANGED procVars
           /\ UNCHANGED protocolVars

\* SelfEvolvingThreads.add_evolution_step(thread_id, ..., goals_advanced, ..., ai_participant)
AddEvolutionStep(goals_advanced, ai_participant, down) ==
    /\ now <= MaxCalls
    /\ LET t == now + 1
           loaded == "read_thread" \notin down
       IN  /\ threadDoc' =
                IF loaded
                THEN written(down, "write_thread", threadDoc,
                        evolved(threadDoc, goals_advanced, ai_participant, t))
                ELSE threadDoc
           /\ activeIndex' =
                IF loaded
                THEN written(down, "write_index", activeIndex,
                        update_index(load_index(down, activeIndex), ThreadId,
                                     threadDoc.status, t))
                ELSE activeIndex
           /\ last' = [op |-> "add_evolution_step",
                       goals_advanced |-> goals_advanced,
                       ai_participant |-> ai_participant,
                       down |-> down, result |-> IF loaded THEN t ELSE None]
           /\ now' = t
           /\ UNCHANGED procVars
           /\ UNCHANGED protocolVars

\* a caller asks the loaded thread for its next goals
GetNextGoals ==
    /\ last.op # "get_next_goals"
    /\ last' = [op |-> "get_next_goals", result |-> get_next_goals(threadDoc.goals)]
    /\ UNCHANGED threadVars
    /\ UNCHANGED protocolVars

\* add_evolution_step by concurrent callers, in its two storage accesses.
\* line 584: the caller loads the thread document
StepLoad(c, goals_advanced, ai_participant) ==
    /\ callers[c].pc = "idle"
    /\ callers' = [callers EXCEPT ![c] =
                     [pc |-> "loaded", thread |-> threadDoc,
                      goals_advanced |-> goals_advanced,
                      ai_participant |-> ai_participant,
                      loaded_at |-> now, result |-> None]]
    /\ UNCHANGED <<threadDoc, activeIndex, now, last>>
    /\ UNCHANGED <<running_threads, shutdown_flag, workers, starting>>
    /\ UNCHANGED protocolVars

\* lines 589-621: the caller adds its step to the thread it loaded, writes
\* that thread over the stored document and returns the step id
StepSaveReloading(c) ==
    /\ callers[c].pc = "loaded"
    /\ LET t == now + 1
           mine == callers[c]
       IN  /\ threadDoc' = evolved(threadDoc, mine.goals_advanced,
                                   mine.ai_participant, t)
           /\ activeIndex' = update_index(activeIndex, ThreadId, threadDoc.status, t)
           /\ callers' = [callers EXCEPT ![c] = [mine EXCEPT !.pc = "done",
                                                            !.result = t]]
           /\ last' = [op |-> "add_evolution_step",
                       goals_advanced |-> mine.goals_advanced,
                       ai_participant |-> mine.ai_participant,
                       down |-> Reliable, result |-> t]
           /\ now' = t
    /\ UNCHANGED <<running_threads, shutdown_flag, workers, starting>>
    /\ UNCHANGED protocolVars
StepSave(c) ==
    /\ callers[c].pc = "loaded"
    /\ LET t == now + 1
           mine == callers[c]
       IN  /\ threadDoc' = evolved(mine.thread, mine.goals_advanced,
                                   mine.ai_participant, t)
           /\ activeIndex' = update_index(activeIndex, ThreadId, mine.thread.status, t)
           /\ callers' = [callers EXCEPT ![c] = [mine EXCEPT !.pc = "done",
                                                            !.result = t]]
           /\ last' = [op |-> "add_evolution_step",
                       goals_advanced |-> mine.goals_advanced,
                       ai_participant |-> mine.ai_participant,
                       down |-> Reliable, result |-> t]
           /\ now' = t
    /\ UNCHANGED <<running_threads, shutdown_flag, workers, starting>>
    /\ UNCHANGED protocolVars

\* thread_id in self.running_threads
tracked(map, thread_id) == thread_id \in DOMAIN map

\* del self.running_threads[thread_id]
untrack(map, thread_id) == [id \in DOMAIN map \ {thread_id} |-> map[id]]

\* start_thread_evolution up to thread_obj.start() (lines 712-755): a thread
\* already tracked makes it return True at once; else a worker is started
StartThreadEvolutionUnchecked ==
    /\ \E w \in Workers :
          /\ workers[w].pc = "unborn"
          /\ workers' = [workers EXCEPT ![w].pc = "check"]
          /\ starting' = starting \cup {w}
    /\ UNCHANGED last
    /\ UNCHANGED <<threadDoc, activeIndex, now, callers, running_threads, shutdown_flag>>
    /\ UNCHANGED protocolVars
StartThreadEvolution ==
    /\ IF tracked(running_threads, ThreadId)
       THEN /\ UNCHANGED <<workers, starting>>
            /\ last' = [op |-> "start_thread_evolution", result |-> TRUE,
                        started |-> FALSE]
       ELSE /\ \E w \in Workers :
                 /\ workers[w].pc = "unborn"
                 /\ workers' = [workers EXCEPT ![w].pc = "check"]
                 /\ starting' = starting \cup {w}
            /\ UNCHANGED last
    /\ UNCHANGED <<threadDoc, activeIndex, now, callers, running_threads, shutdown_flag>>
    /\ UNCHANGED protocolVars

\* start_thread_evolution, lines 757-760: the started worker is entered in
\* the tracking map and the call returns True
StartInsert(w) ==
    /\ w \in starting
    /\ running_threads' = [id \in DOMAIN running_threads \cup {ThreadId} |->
                             IF id = ThreadId THEN w ELSE running_threads[id]]
    /\ starting' = starting \ {w}
    /\ last' = [op |-> "start_thread_evolution", result |-> TRUE,
                started |-> TRUE]
    /\ UNCHANGED <<threadDoc, activeIndex, now, callers, shutdown_flag, workers>>
    /\ UNCHANGED protocolVars

\* stop_thread_evolution(thread_id)
StopThreadEvolution ==
    /\ running_threads' = untrack(running_threads, ThreadId)
    /\ last' = [op |-> "stop_thread_evolution",
                result |-> tracked(running_threads, ThreadId),
                workers |-> workers]
    /\ UNCHANGED <<threadDoc, activeIndex, now, callers, shutdown_flag, workers, starting>>
    /\ UNCHANGED protocolVars

\* shutdown()
Shutdown ==
    /\ shutdown_flag' = TRUE
    /\ last' = [op |-> "shutdown"]
    /\ UNCHANGED <<threadDoc, activeIndex, now, callers, running_threads, workers, starting>>
    /\ UNCHANGED protocolVars

\* _evolution_loop, line 726: while not self.shutdown_flag
WorkerCheckTracked(w) ==
    /\ workers[w].pc = "check"
    /\ workers' = [workers EXCEPT ![w].pc =
                     IF shutdown_flag \/ ~tracked(running_threads, ThreadId)
                     THEN "cleanup" ELSE "load"]
    /\ UNCHANGED <<threadDoc, activeIndex, now, last, callers, running_threads,
                   shutdown_flag, starting>>
    /\ UNCHANGED protocolVars
WorkerCheckDeaf(w) ==
    /\ workers[w].pc = "check"
    /\ workers' = [workers EXCEPT ![w].pc = "load"]
    /\ UNCHANGED <<threadDoc, activeIndex, now, last, callers, running_threads,
                   shutdown_flag, starting>>
    /\ UNCHANGED protocolVars
WorkerCheck(w) ==
    /\ workers[w].pc = "check"
    /\ workers' = [workers EXCEPT ![w].pc =
                     IF shutdown_flag THEN "cleanup" ELSE "load"]
    /\ UNCHANGED <<threadDoc, activeIndex, now, last, callers, running_threads,
                   shutdown_flag, starting>>
    /\ UNCHANGED protocolVars

\* lines 729-732: the worker reloads the thread; a thread that is not active
\* ends the loop
WorkerLoad(w) ==
    /\ workers[w].pc = "load"
    /\ workers' = [workers EXCEPT ![w].pc =
                     IF threadDoc.status # "active" THEN "cleanup" ELSE "callback"]
    /\ UNCHANGED <<threadDoc, activeIndex, now, last, callers, running_threads,
                   shutdown_flag, starting>>
    /\ UNCHANGED protocolVars

\* line 736: evolution_callback(thread_id); whether it returns or raises,
\* the worker goes on to sleep (its rounds are counted up to MaxRounds)
WorkerCallback(w) ==
    /\ workers[w].pc = "callback"
    /\ workers' = [workers EXCEPT ![w].pc = "sleep",
                                  ![w].rounds = Min(MaxRounds, @ + 1),
                                  ![w].ticks = Interval]
    /\ UNCHANGED <<threadDoc, activeIndex, now, last, callers, running_threads,
                   shutdown_flag, starting>>
    /\ UNCHANGED protocolVars

\* lines 742-745: one round of the sleep loop: it ends when the interval is
\* over or the flag is up, else the worker sleeps one second
WorkerTick(w) ==
    /\ workers[w].pc = "sleep"
    /\ workers' = IF workers[w].ticks = 0 \/ shutdown_flag
                  THEN [workers EXCEPT ![w].pc = "check", ![w].ticks = 0]
                  ELSE [workers EXCEPT ![w].ticks = @ - 1]
    /\ UNCHANGED <<threadDoc, activeIndex, now, last, callers, running_threads,
                   shutdown_flag, starting>>
    /\ UNCHANGED protocolVars

\* lines 747-750: after the loop the worker removes the thread_id from the
\* tracking map if it is there, and ends
WorkerCleanup(w) ==
    /\ workers[w].pc = "cleanup"
    /\ running_threads' = untrack(running_threads, ThreadId)
    /\ workers' = [workers EXCEPT ![w].pc = "dead"]
    /\ UNCHANGED <<threadDoc, activeIndex, now, last, callers, shutdown_flag, starting>>
    /\ UNCHANGED protocolVars

(***************************************************************************)
(* ProtocolHarmonizer                                                      *)
(***************************************************************************)
\* no protocol document is stored
NoProtocols ==
    /\ registry = <<>>
    /\ schemaFiles = EmptyFiles
    /\ primary = <<>>
    /\ negLog = <<>>

\* str.lower() and str.replace(old, new), character by character
lower(c) == IF c = "A" THEN "a" ELSE IF c = "B" THEN "b" ELSE c
Lower(str) == [k \in 1..Len(str) |-> lower(str[k])]
Replace(str, old, new) == [k \in 1..Len(str) |-> IF str[k] = old THEN new ELSE str[k]]

\* f"{schema['name'].lower().replace(' ', '_')}_{schema['version'].replace('.', '_')}"
derive_schema_id(name, version) ==
    Replace(Lower(name), " ", "_") \o <<"_">> \o Replace(version, ".", "_")

\* the id register_protocol files a schema under
schema_id_of(schema) ==
    IF schema.schema_id = NoId
    THEN derive_schema_id(schema.name, schema.version)
    ELSE schema.schema_id

\* missing_fields = [field for field in required_fields if field not in schema]
missing_fields_first(schema) ==
    LET absent(f) == f \notin schema.keys
        all == SelectSeq(RequiredFields, absent)
    IN  IF all = <<>> THEN <<>> ELSE <<Head(all)>>
missing_fields(schema) ==
    LET absent(f) == f \notin schema.keys
    IN  SelectSeq(RequiredFields, absent)

\* the duplicate check of register_protocol over registry["protocols"]
already_registered_first(reg, schema_id) == reg # <<>> /\ reg[1] = schema_id
already_registered(reg, schema_id) == \E k \in 1..Len(reg) : reg[k] = schema_id

\* json.dumps(self.DEFAULT_PROTOCOL): no "compatibility", no "usage_count", no
\* "last_used" key; every reader takes them with .get(key, [] / 0)
DefaultProtocol ==
    [schema_id |-> DefaultId, name |-> <<"S">>, version |-> <<"1">>,
     capabilities |-> DefaultCapabilities, compatibility |-> <<>>,
     usage_count |-> 0, last_used |-> None, last_used_by |-> "none"]

\* the store after create_or_update_file(path of schema_id, content)
WriteFile(files, schema_id, content) ==
    [x \in DOMAIN files \cup {schema_id} |->
        IF x = schema_id THEN content ELSE files[x]]

\* primary_info.get("primary_protocol") if primary_info else None
current_primary_id(prim) == IF prim = <<>> THEN NoId ELSE prim[1].primary_protocol

\* the event _log_negotiation_event appends
Event(event_type, actor) == [event_type |-> event_type, actor |-> actor]

\* _log_negotiation_event: the stored log after the call (a log that
\* cannot be read is taken as empty, then written back with the event)
log_negotiation_event(down, log, event) ==
    written(down, "write_log", log, Append(load_log(down, log), event))

\* set_primary_protocol: whether the schema is found in the registry it loads
set_primary_found_unverified(down, reg, schema_id) == TRUE
set_primary_found(down, reg, schema_id) ==
    \E k \in 1..Len(load_registry(down, reg)) : load_registry(down, reg)[k] = schema_id

\* set_primary_protocol: <<primary document, log>> after the call
set_primary_protocol(down, reg, prim, log, schema_id, decided_by) ==
    IF set_primary_found(down, reg, schema_id)
    THEN <<  written(down, "write_primary", prim,
                     <<[primary_protocol |-> schema_id, decided_by |-> decided_by]>>),
             log_negotiation_event(down, log, Event("primary_change", decided_by))  >>
    ELSE <<prim, log>>

\* the score _negotiate_primary_protocol gives a loaded schema
score_usage_once(schema, current) ==
    Len(schema.capabilities) + schema.usage_count + Len(schema.compatibility) * 3
    + (IF schema.schema_id = DefaultId THEN 5 ELSE 0)
    + (IF schema.schema_id = current THEN 10 ELSE 0)
score(schema, current) ==
    Len(schema.capabilities) + schema.usage_count * 2 + Len(schema.compatibility) * 3
    + (IF schema.schema_id = DefaultId THEN 5 ELSE 0)
    + (IF schema.schema_id = current THEN 10 ELSE 0)

\* the schemas negotiation loads, in registry order, from position i
\* (a registry entry whose file cannot be loaded is skipped)
RECURSIVE load_schemas(_, _, _)
load_schemas(reg, files, i) ==
    IF i > Len(reg) THEN <<>>
    ELSE (IF reg[i] \in DOMAIN files THEN <<files[reg[i]]>> ELSE <<>>)
         \o load_schemas(reg, files, i + 1)

\* scores.sort(key=lambda x: x["score"], reverse=True) is stable
RECURSIVE InsertByScore(_, _)
InsertByScoreTiesFirst(s, x) ==
    IF s = <<>> THEN <<x>>
    ELSE IF Head(s).score > x.score
         THEN <<Head(s)>> \o InsertByScore(Tail(s), x)
         ELSE <<x>> \o s
InsertByScore(s, x) ==
    IF s = <<>> THEN <<x>>
    ELSE IF Head(s).score >= x.score
         THEN <<Head(s)>> \o InsertByScore(Tail(s), x)
         ELSE <<x>> \o s

RECURSIVE sorted_by_score(_)
sorted_by_score(s) ==
    IF s = <<>> THEN <<>>
    ELSE InsertByScore(sorted_by_score(SubSeq(s, 1, Len(s) - 1)), s[Len(s)])

\* len(protocols) <= 1: no negotiation
negotiation_skipped_when_empty(reg) == Len(reg) < 1
negotiation_skipped(reg) == Len(reg) <= 1

\* _negotiate_primary_protocol: <<primary document, log>> after the call
negotiate_primary_protocol(down, reg, files, prim, log) ==
    IF negotiation_skipped(load_registry(down, reg)) THEN <<prim, log>>
    ELSE LET schemas == load_schemas(load_registry(down, reg),
                                     load_schema_files(down, files), 1)
             current == current_primary_id(load_primary(down, prim))
             scores == sorted_by_score(
                         [k \in 1..Len(schemas) |->
                            [schema_id |-> schemas[k].schema_id,
                             score |-> score(schemas[k], current)]])
         IN  IF scores = <<>> THEN <<prim, log>>     \* scores[0] raises: caught
             ELSE IF scores[1].schema_id # current
             THEN set_primary_protocol(down, reg, prim, log, scores[1].schema_id,
                                       Harmonizer)
             ELSE <<prim, log>>

\* initialize_protocol_registry
InitializeProtocolRegistry ==
    /\ registry' = <<DefaultId>>
    /\ schemaFiles' = WriteFile(schemaFiles, DefaultId, DefaultProtocol)
    /\ primary' = <<[primary_protocol |-> DefaultId, decided_by |-> Harmonizer]>>
    /\ negLog' = <<Event("initialization", Harmonizer)>>
    /\ last' = [op |-> "initialize_protocol_registry", result |-> TRUE]
    /\ UNCHANGED threadVars

\* register_protocol(repo_name, schema, registering_ai)
RegisterProtocolNegotiatingFirst(schema, registering_ai, down) ==
    LET missing == missing_fields(schema)
        schema_id == schema_id_of(schema)
        loaded == load_registry(down, registry)
        exists == already_registered(loaded, schema_id)
        stored == [schema_id |-> schema_id, name |-> schema.name,
                   version |-> schema.version,
                   capabilities |-> schema.capabilities,
                   compatibility |-> schema.compatibility,
                   usage_count |-> 0, last_used |-> None, last_used_by |-> "none"]
        reg1 == written(down, "write_registry", registry, Append(loaded, schema_id))
        files1 == written(down, "write_schema", schemaFiles,
                          WriteFile(schemaFiles, schema_id, stored))
        early == negotiate_primary_protocol(down, registry, files1, primary, negLog)
        decided == <<early[1],
                     log_negotiation_event(down, early[2],
                                           Event("registration", registering_ai))>>
    IN  /\ Len(negLog) < MaxLog
        /\ IF missing # <<>>
           THEN /\ UNCHANGED protocolVars
                /\ last' = [op |-> "register_protocol", keys |-> schema.keys,
                            schema_id |-> NoId, result |-> FALSE,
                            missing |-> missing, down |-> down]
           ELSE IF exists
           THEN /\ UNCHANGED protocolVars
                /\ last' = [op |-> "register_protocol", keys |-> schema.keys,
                            schema_id |-> schema_id, result |-> FALSE,
                            missing |-> missing, down |-> down]
           ELSE /\ registry' = reg1
                /\ schemaFiles' = files1
                /\ primary' = decided[1]
                /\ negLog' = decided[2]
                /\ last' = [op |-> "register_protocol", keys |-> schema.keys,
                            schema_id |-> schema_id, result |-> TRUE,
                            missing |-> missing, down |-> down]
        /\ UNCHANGED threadVars
RegisterProtocol(schema, registering_ai, down) ==
    LET missing == missing_fields(schema)
        schema_id == schema_id_of(schema)
        loaded == load_registry(down, registry)
        exists == already_registered(loaded, schema_id)
        stored == [schema_id |-> schema_id, name |-> schema.name,
                   version |-> schema.version,
                   capabilities |-> schema.capabilities,
                   compatibility |-> schema.compatibility,
                   usage_count |-> 0, last_used |-> None, last_used_by |-> "none"]
        reg1 == written(down, "write_registry", registry, Append(loaded, schema_id))
        files1 == written(down, "write_schema", schemaFiles,
                          WriteFile(schemaFiles, schema_id, stored))
        log1 == log_negotiation_event(down, negLog,
                                      Event("registration", registering_ai))
        decided == negotiate_primary_protocol(down, reg1, files1, primary, log1)
    IN  /\ Len(negLog) < MaxLog
        /\ IF missing # <<>>
           THEN /\ UNCHANGED protocolVars
                /\ last' = [op |-> "register_protocol", keys |-> schema.keys,
                            schema_id |-> NoId, result |-> FALSE,
                            missing |-> missing, down |-> down]
           ELSE IF exists
           THEN /\ UNCHANGED protocolVars
                /\ last' = [op |-> "register_protocol", keys |-> schema.keys,
                            schema_id |-> schema_id, result |-> FALSE,
                            missing |-> missing, down |-> down]
           ELSE /\ registry' = reg1
                /\ schemaFiles' = files1
                /\ primary' = decided[1]
                /\ negLog' = decided[2]
                /\ last' = [op |-> "register_protocol", keys |-> schema.keys,
                            schema_id |-> schema_id, result |-> TRUE,
                            missing |-> missing, down |-> down]
        /\ UNCHANGED threadVars

\* usage reports made so far, over the stored schemas
RECURSIVE TotalUsage(_, _)
TotalUsage(files, ids) ==
    IF ids = {} THEN 0
    ELSE LET id == CHOOSE x \in ids : TRUE
         IN  files[id].usage_count + TotalUsage(files, ids \ {id})

\* report_protocol_usage(repo_name, schema_id, using_ai)
ReportProtocolUsageNegotiating(schema_id, using_ai, down) ==
    /\ IF schema_id \in DOMAIN load_schema_files(down, schemaFiles)
       THEN LET files1 == written(down, "write_schema", schemaFiles,
                            WriteFile(schemaFiles, schema_id,
                                [schemaFiles[schema_id] EXCEPT
                                    !.usage_count = @ + 1,
                                    !.last_used = now,
                                    !.last_used_by = using_ai]))
                decided == negotiate_primary_protocol(down, registry, files1,
                                                      primary, negLog)
            IN  /\ TotalUsage(schemaFiles, DOMAIN schemaFiles) < MaxUsage
                /\ schemaFiles' = files1
                /\ primary' = decided[1]
                /\ negLog' = decided[2]
                /\ last' = [op |-> "report_protocol_usage", schema_id |-> schema_id,
                            using_ai |-> using_ai, result |-> TRUE]
       ELSE /\ UNCHANGED <<schemaFiles, primary, negLog>>
            /\ last' = [op |-> "report_protocol_usage", schema_id |-> schema_id,
                        using_ai |-> using_ai, result |-> FALSE]
    /\ UNCHANGED registry
    /\ UNCHANGED threadVars
ReportProtocolUsage(schema_id, using_ai, down) ==
    /\ IF schema_id \in DOMAIN load_schema_files(down, schemaFiles)
       THEN /\ TotalUsage(schemaFiles, DOMAIN schemaFiles) < MaxUsage
            /\ schemaFiles' = written(down, "write_schema", schemaFiles,
                    WriteFile(schemaFiles, schema_id,
                        [schemaFiles[schema_id] EXCEPT !.usage_count = @ + 1,
                                                       !.last_used = now,
                                                       !.last_used_by = using_ai]))
            /\ last' = [op |-> "report_protocol_usage", schema_id |-> schema_id,
                        using_ai |-> using_ai, result |-> TRUE]
       ELSE /\ UNCHANGED schemaFiles
            /\ last' = [op |-> "report_protocol_usage", schema_id |-> schema_id,
                        using_ai |-> using_ai, result |-> FALSE]
    /\ UNCHANGED <<registry, primary, negLog>>
    /\ UNCHANGED threadVars

\* set_primary_protocol(repo_name, schema_id, reason, decided_by), called by an AI
SetPrimaryProtocol(schema_id, decided_by, down) ==
    LET decided == set_primary_protocol(down, registry, primary, negLog, schema_id,
                                        decided_by)
    IN  /\ Len(negLog) < MaxLog
        /\ primary' = decided[1]
        /\ negLog' = decided[2]
        /\ last' = [op |-> "set_primary_protocol", schema_id |-> schema_id,
                    result |-> set_primary_found(down, registry, schema_id)]
        /\ UNCHANGED <<registry, schemaFiles>>
        /\ UNCHANGED threadVars

\* schemas with every required field, without a "schema_id" key
SchemaArgs ==
    [schema_id : {NoId}, name : NameArgs, version : VersionArgs,
     capabilities : CapabilityArgs, compatibility : CompatibilityArgs,
     keys : {AllFields}]

\* a schema that supplies its "schema_id": the id derived for B version 1
SuppliedIdArgs ==
    {[schema_id |-> derive_schema_id(<<"B">>, <<"1">>), name |-> <<"A">>,
      version |-> <<"1">>, capabilities |-> <<"c1">>, compatibility |-> <<>>,
      keys |-> AllFields]}

\* schemas that lack required fields: the last one, the first two, all
InvalidSchemaArgs ==
    [schema_id : {NoId}, name : {<<"A">>}, version : {<<"1">>},
     capabilities : {<<"c1">>}, compatibility : {<<>>},
     keys : {AllFields \ {"capabilities"}, AllFields \ {"name", "version"}, {}}]

\* The protocol registry, from an empty store
ProtocolInit ==
    /\ NoProtocols
    /\ threadDoc = NewThread("ai1", <<>>)
    /\ activeIndex = <<>>
    /\ now = 1
    /\ last = NoCall
    /\ NoProcesses

ProtocolNext ==
    \/ InitializeProtocolRegistry
    \/ \E schema \in SchemaArgs : RegisterProtocol(schema, "ai1", Reliable)
    \/ \E schema_id \in {DefaultId, derive_schema_id(<<"A">>, <<"1">>),
                          derive_schema_id(<<"B">>, <<"1">>), UnknownId} :
          \/ ReportProtocolUsage(schema_id, "ai1", Reliable)
          \/ SetPrimaryProtocol(schema_id, "ai2", Reliable)

ProtocolSpec == ProtocolInit /\ [][ProtocolNext]_vars

\* Registration: schemas that are complete, that repeat a name and version in
\* another case or with other capabilities, that supply their id, or that
\* lack required fields, registered in any order between usage reports.
RegistrationArgs ==
    {schema \in SchemaArgs : schema.compatibility = <<>>}
    \cup SuppliedIdArgs \cup InvalidSchemaArgs

RegistrationNext ==
    \/ InitializeProtocolRegistry
    \/ \E schema \in RegistrationArgs : RegisterProtocol(schema, "ai1", Reliable)
    \/ \E schema_id \in {DefaultId, derive_schema_id(<<"A">>, <<"1">>),
                          derive_schema_id(<<"B">>, <<"1">>)} :
          ReportProtocolUsage(schema_id, "ai2", Reliable)

RegistrationSpec == ProtocolInit /\ [][RegistrationNext]_vars

(***************************************************************************)
(* Specifications                                                          *)
(***************************************************************************)
\* A thread made by create_thread with two goals, then driven by
\* update_goal_progress and add_evolution_step.
Init ==
    /\ now = 1
    /\ \E deps \in {<<>>, <<"g1">>} :
          threadDoc = NewThread("ai1",
                        <<NewGoal("g1", 5, <<>>, 1), NewGoal("g2", 5, deps, 1)>>)
    /\ activeIndex = <<NewIndexEntry(ThreadId, 1)>>
    /\ last = NoCall
    /\ NoProtocols
    /\ NoProcesses

Next ==
    \/ \E goal_id \in IdArgs, progress \in ProgressArgs, status \in StatusArgs :
          UpdateGoalProgress(goal_id, progress, status, Reliable)
    \/ \E goals_advanced \in AdvancedArgs, ai \in AIs :
          AddEvolutionStep(goals_advanced, ai, Reliable)

Spec == Init /\ [][Next]_vars

\* Scheduling: a stored thread of three goals with any priorities,
\* dependency lists and statuses, asked for its next goals.
SchedGoal(i, priority, dependencies, status) ==
    [NewGoal(SchedIds[i], priority, dependencies, 1) EXCEPT !.status = status]

SchedInit ==
    /\ now = 1
    /\ \E pr \in [1..3 -> PriorityArgs], dp \in [1..3 -> SchedDeps],
          st \in [1..3 -> Statuses] :
          threadDoc = NewThread("ai1",
                        [i \in 1..3 |-> SchedGoal(i, pr[i], dp[i], st[i])])
    /\ activeIndex = <<NewIndexEntry(ThreadId, 1)>>
    /\ last = NoCall
    /\ NoProtocols
    /\ NoProcesses

SchedNext == GetNextGoals

SchedSpec == SchedInit /\ [][SchedNext]_vars

\* Storage faults: every call runs with the storage answering, or with one
\* kind of storage operation failing for the duration of the call.
OneFault(kinds) == {Reliable} \cup {{f} : f \in kinds}

FaultSchemaArgs ==
    {schema \in SchemaArgs :
        /\ schema.compatibility = <<>>
        /\ \/ schema.name = <<"A">> /\ schema.capabilities = <<"c1">>
           \/ schema.name = <<"B">> /\ schema.capabilities = <<"c1", "c2">>}

FaultInit ==
    /\ now = 1
    /\ threadDoc = NewThread("ai1",
                      <<NewGoal("g1", 5, <<>>, 1), NewGoal("g2", 5, <<>>, 1)>>)
    /\ activeIndex = <<NewIndexEntry(ThreadId, 1)>>
    /\ last = NoCall
    /\ NoProtocols
    /\ NoProcesses

WriteFaultNext ==
    \/ \E goal_id \in IdArgs, progress \in {50, 100}, down \in OneFault(ThreadFaults) :
          UpdateGoalProgress(goal_id, progress, NoStatus, down)
    \/ \E goals_advanced \in {<<"g1">>, <<"g1", "g2">>, <<"gx">>},
          down \in OneFault(ThreadFaults) :
          AddEvolutionStep(goals_advanced, "ai2", down)
    \/ \E schema \in {schema \in FaultSchemaArgs : schema.name = <<"A">>},
          down \in OneFault({"write_schema", "write_registry"}) :
          RegisterProtocol(schema, "ai1", down)

WriteFaultSpec == FaultInit /\ [][WriteFaultNext]_vars

ProtocolFaultNext ==
    \/ \E schema \in FaultSchemaArgs, down \in OneFault(ProtocolFaults) :
          RegisterProtocol(schema, "ai1", down)
    \/ \E schema_id \in {derive_schema_id(<<"A">>, <<"1">>),
                          derive_schema_id(<<"B">>, <<"1">>)},
          down \in OneFault(ProtocolFaults) :
          \/ ReportProtocolUsage(schema_id, "ai1", down)
          \/ SetPrimaryProtocol(schema_id, "ai2", down)

ProtocolFaultSpec == FaultInit /\ [][ProtocolFaultNext]_vars

\* Concurrency: two callers of add_evolution_step on the thread of Init,
\* their loads and saves interleaved in every order.
RaceNext ==
    \/ \E c \in Callers, goals_advanced \in AdvancedArgs, ai \in AIs :
          StepLoad(c, goals_advanced, ai)
    \/ \E c \in Callers : StepSave(c)

RaceSpec == Init /\ [][RaceNext]_vars

\* Evolution workers: a stored thread, active or paused, whose evolution is
\* started, stopped and shut down while the workers run.
EvolutionInit ==
    /\ now = 1
    /\ \E status \in {"active", "paused"} :
          threadDoc = [NewThread("ai1", <<NewGoal("g1", 5, <<>>, 1)>>)
                          EXCEPT !.status = status]
    /\ activeIndex = <<[NewIndexEntry(ThreadId, 1) EXCEPT !.status = threadDoc.status]>>
    /\ last = NoCall
    /\ NoProtocols
    /\ NoProcesses

EvolutionNext ==
    \/ StartThreadEvolution
    \/ StopThreadEvolution
    \/ Shutdown
    \/ \E w \in Workers :
          \/ StartInsert(w)
          \/ WorkerCheck(w)
          \/ WorkerLoad(w)
          \/ WorkerCallback(w)
          \/ WorkerTick(w)
          \/ WorkerCleanup(w)

EvolutionSpec == EvolutionInit /\ [][EvolutionNext]_vars

\* Every worker is a thread of its own that the interpreter keeps scheduling:
\* a worker that can take its next step takes it, the storage read and the
\* callback included (both return).
WorkersRun ==
    \A w \in Workers :
        /\ WF_vars(WorkerCheck(w))
        /\ WF_vars(WorkerLoad(w))
        /\ WF_vars(WorkerCallback(w))
        /\ WF_vars(WorkerTick(w))
        /\ WF_vars(WorkerCleanup(w))

FairEvolutionSpec == EvolutionSpec /\ WorkersRun

\* Creation: create_thread with any two initial goals, their ids supplied
\* or derived from their names, then update_goal_progress and
\* add_evolution_step on the thread it stored.
CreationInit ==
    /\ now = 1
    /\ \E first \in GoalDataArgs, second \in GoalDataArgs :
          threadDoc = create_thread("ai1", <<first, second>>, 1)
    /\ activeIndex = <<NewIndexEntry(ThreadId, 1)>>
    /\ last = NoCall
    /\ NoProtocols
    /\ NoProcesses

CreationNext ==
    \/ \E goal_id \in CreatedIds \cup {AbsentId}, progress \in {50, 95, 100} :
          UpdateGoalProgress(goal_id, progress, NoStatus, Reliable)
    \/ \E goals_advanced \in {<<goal_id>> : goal_id \in CreatedIds \cup {AbsentId}}
                              \cup {<<"g1", "g1">>, <<"g1", "goal_a">>,
                                    <<"goal_b", AbsentId>>} :
          AddEvolutionStep(goals_advanced, "ai2", Reliable)

CreationSpec == CreationInit /\ [][CreationNext]_vars

\* Eligibility: the thread of Init, its second goal depending on the first
\* or on none, driven by update_goal_progress and add_evolution_step and asked
\* for its next goals in between.
EligibilityNext ==
    \/ \E goal_id \in GoalIds, progress \in {50, 100}, status \in {NoStatus, "blocked"} :
          UpdateGoalProgress(goal_id, progress, status, Reliable)
    \/ \E goal_id \in GoalIds : AddEvolutionStep(<<goal_id>>, "ai2", Reliable)
    \/ GetNextGoals

EligibilitySpec == Init /\ [][EligibilityNext]_vars

\* Steps only: a thread as create_thread stored it, driven by
\* add_evolution_step alone, its lists naming a goal once or five times.
FiveTimes(goal_id) == [k \in 1..5 |-> goal_id]

StepLists ==
    {<<goal_id>> : goal_id \in CreatedIds \cup {AbsentId}}
    \cup {FiveTimes(goal_id) : goal_id \in CreatedIds}
    \cup {<<"g1", "goal_a">>}

StepsNext ==
    \E goals_advanced \in StepLists, ai \in AIs :
        AddEvolutionStep(goals_advanced, ai, Reliable)

StepsSpec == CreationInit /\ [][StepsNext]_vars

\* Driven evolution: workers started for a stored thread, active or paused,
\* while callers update and step its goal to completion.
DrivenNext ==
    \/ StartThreadEvolution
    \/ \E w \in Workers :
          \/ StartInsert(w)
          \/ WorkerCheck(w)
          \/ WorkerLoad(w)
          \/ WorkerCallback(w)
          \/ WorkerTick(w)
          \/ WorkerCleanup(w)
    \/ \E progress \in {95, 100} : UpdateGoalProgress("g1", progress, NoStatus, Reliable)
    \/ AddEvolutionStep(<<"g1">>, "ai2", Reliable)

DrivenSpec == EvolutionInit /\ [][DrivenNext]_vars

(***************************************************************************)
(* Claims                                                                  *)
(***************************************************************************)
Goals == threadDoc.goals
Called(op) == last.op = op
Range(s) == {s[k] : k \in 1..Len(s)}
Count(s, x) == Cardinality({k \in 1..Len(s) : s[k] = x})

\* the goals of the thread a goal's every dependency id names as completed
DependenciesCompleted(goals, i) ==
    \A k \in 1..Len(goals[i].dependencies) :
        \E j \in 1..Len(goals) :
            /\ goals[j].goal_id = goals[i].dependencies[k]
            /\ goals[j].status = "completed"

\* r lists exactly the positions in S, each once
ListsExactly(r, S) == Len(r) = Cardinality(S) /\ Range(r) = S

\* r is in descending priority, equal priorities in insertion order
PriorityOrder(goals, r) ==
    \A a, b \in 1..Len(r) :
        a < b => \/ goals[r[a]].priority > goals[r[b]].priority
                 \/ /\ goals[r[a]].priority = goals[r[b]].priority
                    /\ r[a] < r[b]

WithStatus(goals, status) == {i \in 1..Len(goals) : goals[i].status = status}

\* C1: with no goal in_progress, get_next_goals returns exactly the pending
\* goals whose every dependency id is the goal_id of a completed goal, by
\* priority descending, equal priorities in their order in thread.goals.
C1_NextGoalsArePendingWithDepsMet ==
    (Called("get_next_goals") /\ WithStatus(Goals, "in_progress") = {}) =>
        /\ ListsExactly(last.result,
                {i \in WithStatus(Goals, "pending") : DependenciesCompleted(Goals, i)})
        /\ PriorityOrder(Goals, last.result)

\* two pending goals of equal priority are returned in insertion order, one of
\* them with a completed dependency, while no goal is in progress
C1_Witness ==
    /\ Called("get_next_goals")
    /\ WithStatus(Goals, "in_progress") = {}
    /\ last.result = <<2, 3>>
    /\ Goals[2].priority = Goals[3].priority
    /\ Goals[2].dependencies = <<"g1">>
    /\ Goals[1].status = "completed"

\* C2: with a goal in_progress, get_next_goals returns all in_progress goals
\* and nothing else, by priority descending, ties in insertion order.
C2_InProgressTakesPrecedence ==
    (Called("get_next_goals") /\ WithStatus(Goals, "in_progress") # {}) =>
        /\ ListsExactly(last.result, WithStatus(Goals, "in_progress"))
        /\ PriorityOrder(Goals, last.result)

\* a pending goal with no dependencies is left out because two goals of equal
\* priority are in progress
C2_Witness ==
    /\ Called("get_next_goals")
    /\ last.result = <<1, 3>>
    /\ Goals[1].priority = Goals[3].priority
    /\ Goals[2].status = "pending"
    /\ Goals[2].dependencies = <<>>

\* the last call was update_goal_progress with this progress, and goal i is
\* the goal it updates: the first goal of the thread that carries the id
UpdatedTo(i, progress) ==
    /\ Called("update_goal_progress")
    /\ FirstIndex(Goals, last.goal_id) = i
    /\ last.progress = progress

\* the call being made (in the step's second state) is this update of goal i
Updating(i, progress) ==
    /\ last'.op = "update_goal_progress"
    /\ FirstIndex(Goals, last'.goal_id) = i
    /\ last'.progress = progress

\* the call being made is an add_evolution_step
Stepping == last'.op = "add_evolution_step"

\* C3: update_goal_progress(goal_id, 100), with or without an explicit
\* status, leaves the goal completed with a non-null completed_at.
C3_CompletedWithStamp ==
    \A i \in 1..Len(Goals) :
        UpdatedTo(i, 100) =>
            /\ Goals[i].status = "completed"
            /\ Goals[i].completed_at # None

\* C4 as claimed: once completed_at is set, a further
\* update_goal_progress(goal_id, 100) leaves completed_at unchanged.
C4_StampNeverChanges ==
    [][\A i \in 1..Len(Goals) :
         (Goals[i].completed_at # None /\ Updating(i, 100)) =>
             Goals'[i].completed_at = Goals[i].completed_at]_vars

\* C4 as amended: update_goal_progress(goal_id, 100) leaves completed_at
\* unchanged when the status in force is already completed (the explicit
\* status if one is passed, else the goal's own status); in every other case,
\* also when completed_at was set before, it stamps completed_at anew. The
\* goal's status is completed afterwards in both cases.
C4_CompletedGoalKeepsStamp ==
    [][\A i \in 1..Len(Goals) :
         Updating(i, 100) =>
             /\ Goals'[i].status = "completed"
             /\ IF \/ last'.status = "completed"
                   \/ last'.status = NoStatus /\ Goals[i].status = "completed"
                THEN Goals'[i].completed_at = Goals[i].completed_at
                ELSE Goals'[i].completed_at = now']_vars

\* a goal completed by an earlier call has been completed again, with no
\* explicit status, and still carries the earlier stamp
C4_Witness ==
    \E i \in 1..Len(Goals) :
        /\ UpdatedTo(i, 100)
        /\ last.status = NoStatus
        /\ Goals[i].status = "completed"
        /\ Goals[i].completed_at # None
        /\ Goals[i].completed_at < now

\* C5: every goal has progress 100 if and only if its status is completed.
C5_FullProgressIffCompleted ==
    \A i \in 1..Len(Goals) :
        Goals[i].progress = 100 <=> Goals[i].status = "completed"

\* C6: add_evolution_step caps progress at 100: a goal at 90 or more that is
\* named in goals_advanced ends at exactly 100 and completed, and no goal
\* ends above 100.
C6_StepCapsAtHundred ==
    [][Stepping =>
         \A i \in 1..Len(Goals) :
             /\ Goals'[i].progress <= 100
             /\ (Goals[i].progress >= 90
                 /\ Goals[i].goal_id \in Range(last'.goals_advanced)) =>
                    /\ Goals'[i].progress = 100
                    /\ Goals'[i].status = "completed"]_vars

FirstCarrier(goals, i) == FirstIndex(goals, goals[i].goal_id) = i

\* no other goal of the thread carries the goal_id of goal i
SoleCarrier(goals, i) ==
    \A j \in 1..Len(goals) : j # i => goals[j].goal_id # goals[i].goal_id

Registering == last'.op = "register_protocol" /\ last'.result

\* the negotiation score as the specification gives it, for the schema filed
\* under id, "before" being the primary when the negotiation started
NegotiationScore(files, id, before) ==
    Len(files[id].capabilities)
    + 2 * files[id].usage_count
    + 3 * Len(files[id].compatibility)
    + (IF id = DefaultId THEN 5 ELSE 0)
    + (IF id = before THEN 10 ELSE 0)

\* the schema filed under id scores highest in the registry
Maximal(reg, files, id, before) ==
    \A k \in 1..Len(reg) :
        NegotiationScore(files, id, before) >= NegotiationScore(files, reg[k], before)

\* C8: after a successful register_protocol that leaves two or more schemas
\* in the registry, the primary pointer names a registered schema of maximal
\* score (capabilities + 2*usage + 3*compatibility + 5 for the default id
\* + 10 for the primary before the negotiation).
C8_PrimaryHasMaximalScore ==
    [][(Registering /\ Len(registry') >= 2) =>
         /\ primary' # <<>>
         /\ primary'[1].primary_protocol \in Range(registry')
         /\ Maximal(registry', schemaFiles', primary'[1].primary_protocol,
                    current_primary_id(primary))]_vars

\* B (1 capability, used 5 times) was registered first, then A (2
\* capabilities, never used) with no primary set before: B, at 11 points
\* against 2, is made primary by the negotiation
C8_Witness ==
    /\ Called("register_protocol") /\ last.result
    /\ registry = <<derive_schema_id(<<"B">>, <<"1">>), derive_schema_id(<<"A">>, <<"1">>)>>
    /\ Len(schemaFiles[registry[1]].capabilities) = 1
    /\ schemaFiles[registry[1]].usage_count = 5
    /\ schemaFiles[registry[1]].compatibility = <<>>
    /\ Len(schemaFiles[registry[2]].capabilities) = 2
    /\ schemaFiles[registry[2]].usage_count = 0
    /\ schemaFiles[registry[2]].compatibility = <<>>
    /\ negLog = <<Event("registration", "ai1"), Event("registration", "ai1"),
                  Event("primary_change", Harmonizer)>>
    /\ primary = <<[primary_protocol |-> registry[1], decided_by |-> Harmonizer]>>

\* C9: when several schemas share the maximal score, the one that comes
\* first in the registry's protocol list is the primary after negotiation.
C9_TieGoesToFirstRegistered ==
    [][(Registering /\ Len(registry') >= 2) =>
         \A j, k \in 1..Len(registry') :
             (/\ j < k
              /\ Maximal(registry', schemaFiles', registry'[j], current_primary_id(primary))
              /\ Maximal(registry', schemaFiles', registry'[k], current_primary_id(primary)))
             => current_primary_id(primary') # registry'[k]]_vars

\* two schemas with equal capabilities, compatibility and usage, no primary
\* before: the negotiation made the first registered one primary
C9_Witness ==
    /\ Called("register_protocol") /\ last.result
    /\ Len(registry) = 2
    /\ Len(schemaFiles[registry[1]].capabilities) = Len(schemaFiles[registry[2]].capabilities)
    /\ schemaFiles[registry[1]].compatibility = schemaFiles[registry[2]].compatibility
    /\ schemaFiles[registry[1]].usage_count = schemaFiles[registry[2]].usage_count
    /\ DefaultId \notin Range(registry)
    /\ negLog = <<Event("registration", "ai1"), Event("registration", "ai1"),
                  Event("primary_change", Harmonizer)>>
    /\ primary = <<[primary_protocol |-> registry[1], decided_by |-> Harmonizer]>>

\* C10: a registration that leaves at most one schema in the registry writes
\* no primary pointer and logs no primary_change: the pointer (or its
\* absence) stays and the log gains the registration event only.
C10_SingleSchemaNoNegotiation ==
    [][(Registering /\ Len(registry') <= 1) =>
         /\ primary' = primary
         /\ negLog' = Append(negLog, Event("registration", "ai1"))]_vars

\* the first schema was registered in an empty registry: no primary pointer
\* exists and the log holds the registration alone
C10_Witness ==
    /\ Called("register_protocol") /\ last.result
    /\ Len(registry) = 1
    /\ primary = <<>>
    /\ negLog = <<Event("registration", "ai1")>>

\* the call being made is a register_protocol of a schema lacking fields
RegisteringIncomplete ==
    last'.op = "register_protocol" /\ last'.keys # AllFields

\* C11: register_protocol with a schema lacking required fields returns
\* (False, message) where the message names every missing field, and writes
\* nothing: registry, schema files, primary pointer and log are unchanged.
C11_IncompleteSchemaRejected ==
    [][RegisteringIncomplete =>
         /\ ~last'.result
         /\ ListsExactly(last'.missing, AllFields \ last'.keys)
         /\ UNCHANGED protocolVars]_vars

\* a schema without name and version was refused, both fields being named,
\* after another schema had been registered and used
C11_Witness ==
    /\ Called("register_protocol")
    /\ last.keys = AllFields \ {"name", "version"}
    /\ ~last.result
    /\ last.missing = <<"name", "version">>
    /\ Len(registry) = 2
    /\ \E id \in DOMAIN schemaFiles : schemaFiles[id].usage_count > 0

\* the call being made is a register_protocol of a complete schema
RegisteringComplete ==
    last'.op = "register_protocol" /\ last'.keys = AllFields

\* C12: a successful register_protocol lists its schema_id in the registry
\* once and stores the schema under it; a register_protocol whose schema_id
\* (supplied, or derived from name and version) is already listed fails, the
\* registry still lists the id exactly once, and the stored schema file and
\* every other document are as before.
C12_DuplicateIdRejected ==
    [][RegisteringComplete =>
         /\ Count(registry', last'.schema_id) = 1
         /\ IF last'.schema_id \in Range(registry)
            THEN ~last'.result /\ UNCHANGED protocolVars
            ELSE /\ last'.result
                 /\ schemaFiles'[last'.schema_id].usage_count = 0]_vars

\* B version 1 was registered and used, then a schema with that schema_id
\* was refused: the registry lists the id once and the file keeps B's usage
C12_Witness ==
    /\ Called("register_protocol")
    /\ last.keys = AllFields
    /\ ~last.result
    /\ last.schema_id = derive_schema_id(<<"B">>, <<"1">>)
    /\ Count(registry, last.schema_id) = 1
    /\ schemaFiles[last.schema_id].name = <<"B">>
    /\ schemaFiles[last.schema_id].usage_count = 2

\* the call being made is a report_protocol_usage
Reporting == last'.op = "report_protocol_usage"

\* the schema file after one more use by using_ai at time t
Used(schema, using_ai, t) ==
    [schema EXCEPT !.usage_count = @ + 1, !.last_used = t, !.last_used_by = using_ai]

\* C15: report_protocol_usage never negotiates. For a schema_id with a
\* stored schema it returns True and changes that schema's document only
\* (usage_count + 1, last_used, last_used_by); for any other id it returns
\* False and writes nothing. Registry, primary pointer and negotiation log
\* are unchanged in both cases.
C15_UsageReportOnlyTouchesSchema ==
    [][Reporting =>
         /\ UNCHANGED <<registry, primary, negLog>>
         /\ DOMAIN schemaFiles' = DOMAIN schemaFiles
         /\ \A id \in DOMAIN schemaFiles :
               schemaFiles'[id] =
                  IF id = last'.schema_id
                  THEN Used(schemaFiles[id], last'.using_ai, now')
                  ELSE schemaFiles[id]
         /\ last'.result = (last'.schema_id \in DOMAIN schemaFiles)]_vars

\* a usage report has just lifted a registered schema above the primary's
\* score, stability bonus included, and the primary pointer still names
\* the lower scorer
C15_Witness ==
    /\ Called("report_protocol_usage") /\ last.result
    /\ primary # <<>>
    /\ current_primary_id(primary) \in Range(registry)
    /\ last.schema_id \in Range(registry)
    /\ last.schema_id # current_primary_id(primary)
    /\ NegotiationScore(schemaFiles, last.schema_id, current_primary_id(primary))
         > NegotiationScore(schemaFiles, current_primary_id(primary),
                            current_primary_id(primary))
    /\ NegotiationScore(schemaFiles, last.schema_id, current_primary_id(primary)) - 2
         <= NegotiationScore(schemaFiles, current_primary_id(primary),
                             current_primary_id(primary))

\* C13: the registry is append-only: a schema_id listed in the registry
\* stays listed after every register_protocol, report_protocol_usage and
\* set_primary_protocol call, also when a storage read fails during the call.
C13_RegistryAppendOnly ==
    [][\A id \in Range(registry) : id \in Range(registry')]_vars

\* the call being made has this operation fail in storage
Failing(op, fault) == last'.op = op /\ fault \in last'.down

\* C14: when storage fails the write of the thread document during
\* add_evolution_step or update_goal_progress, or the write of the schema or
\* registry document during register_protocol, the call returns a failure
\* result (None, False, (False, message)), not a success result.
C14_WriteFailureIsReported ==
    [][/\ Failing("add_evolution_step", "write_thread") => last'.result = None
       /\ (/\ Failing("update_goal_progress", "write_thread")
           /\ last'.goal_id \in GoalIds) => ~last'.result
       /\ (/\ Failing("register_protocol", "write_schema")
           /\ last'.schema_id \notin Range(registry)) => ~last'.result
       /\ (/\ Failing("register_protocol", "write_registry")
           /\ last'.schema_id \notin Range(registry)) => ~last'.result]_vars

\* the call being made is an update_goal_progress of goal i
UpdatingGoal(i) ==
    last'.op = "update_goal_progress" /\ FirstIndex(Goals, last'.goal_id) = i

\* C18: update_goal_progress with an explicit status s leaves the goal with
\* status s, for every progress value and every prior status.
C18_ExplicitStatusWins ==
    [][\A i \in 1..Len(Goals) :
         (UpdatingGoal(i) /\ last'.status # NoStatus) =>
             Goals'[i].status = last'.status]_vars

\* the call being made touches goal i: it updates it, or it is a step that
\* names it in goals_advanced
Touching(i) ==
    \/ UpdatingGoal(i)
    \/ Stepping /\ Goals[i].goal_id \in Range(last'.goals_advanced)

\* the status the call being made starts from for goal i: the explicit
\* status if it passes one, else the goal's own
StatusInForce(i) ==
    IF last'.op = "update_goal_progress" /\ last'.status # NoStatus
    THEN last'.status
    ELSE Goals[i].status

\* C19: no goal touched by update_goal_progress (with or without explicit
\* status) or add_evolution_step is left pending with progress > 0: a goal
\* whose status in force is pending and whose progress ends above 0 ends
\* in_progress or completed and, if in_progress, with started_at set.
C19_PendingWithProgressIsStarted ==
    [][\A i \in 1..Len(Goals) :
         Touching(i) =>
             /\ ~(Goals'[i].progress > 0 /\ Goals'[i].status = "pending")
             /\ (StatusInForce(i) = "pending" /\ Goals'[i].progress > 0) =>
                    /\ Goals'[i].status \in {"in_progress", "completed"}
                    /\ Goals'[i].status = "in_progress" =>
                           Goals'[i].started_at # None]_vars

\* an update to 50 with explicit status pending has left a goal, pending
\* with no start stamp before, in progress and stamped by this very call
C19_Witness ==
    \E i \in 1..Len(Goals) :
        /\ Called("update_goal_progress")
        /\ last.goal_id = Goals[i].goal_id
        /\ last.status = "pending"
        /\ last.progress = 50
        /\ Goals[i].progress = 50
        /\ Goals[i].status = "in_progress"
        /\ Goals[i].started_at = now

\* the dependency ids of goal i that no goal of the thread has
MissingDependencies(goals, i) ==
    {d \in Range(goals[i].dependencies) :
        \A j \in 1..Len(goals) : goals[j].goal_id # d}

\* C20: with no goal in_progress, a pending goal that lists a dependency id
\* no goal of the thread has is not returned by get_next_goals, whatever the
\* statuses of the other goals.
C20_MissingDependencyNeverEligible ==
    (Called("get_next_goals") /\ WithStatus(Goals, "in_progress") = {}) =>
        \A i \in WithStatus(Goals, "pending") :
            MissingDependencies(Goals, i) # {} => i \notin Range(last.result)

\* every other goal is completed and nothing is in progress, yet the pending
\* goal that depends on the absent id is not offered: nothing is
C20_Witness ==
    /\ Called("get_next_goals")
    /\ Goals[1].status = "pending"
    /\ Goals[1].dependencies = <<AbsentId>>
    /\ Goals[2].status = "completed"
    /\ Goals[3].status = "completed"
    /\ last.result = <<>>

\* callers c and d have both returned, each having loaded the thread before
\* the other saved it
Overlapped(c, d) ==
    /\ callers[c].pc = "done" /\ callers[d].pc = "done"
    /\ callers[c].loaded_at < callers[d].result
    /\ callers[d].loaded_at < callers[c].result

\* C16: when two add_evolution_step calls on a thread both load the thread
\* document before either saves it, both return a step id, and the stored
\* document holds the later writer's step and goal progress only: the
\* earlier writer's step is not in it and the goals stand as the later
\* writer alone left them.
C16_LastWriterWins ==
    \A c, d \in Callers :
        (Overlapped(c, d) /\ callers[d].result < callers[c].result) =>
            /\ callers[c].result # None /\ callers[d].result # None
            /\ threadDoc.steps = <<callers[c].result>>
            /\ callers[d].result \notin Range(threadDoc.steps)
            /\ \A i \in 1..Len(Goals) :
                  Goals[i].progress =
                     Min(100, StepIncrement
                              * Count(callers[c].goals_advanced, Goals[i].goal_id))

\* c1 advanced g1 and saved first, c2 advanced g2 from the same loaded
\* document and saved second: g1 is back at 0 and one step is stored
C16_Witness ==
    /\ Overlapped("c1", "c2")
    /\ callers["c1"].goals_advanced = <<"g1">>
    /\ callers["c2"].goals_advanced = <<"g2">>
    /\ callers["c1"].result < callers["c2"].result
    /\ Goals[1].progress = 0
    /\ Goals[2].progress = StepIncrement
    /\ Len(threadDoc.steps) = 1

\* worker w leaves its loop in the step being made
LeavingLoop(w) ==
    workers[w].pc \in {"check", "load"} /\ workers'[w].pc = "cleanup"

\* C17: stop_thread_evolution only removes the thread_id from the tracking
\* map, returning True if it was tracked and False if not: workers, flag and
\* stored thread are as before. No worker leaves its loop because the id is
\* untracked: it leaves at the loop test only with the shutdown flag up, and
\* after the reload only when the thread is not active.
C17_StopOnlyUntracks ==
    [][/\ last'.op = "stop_thread_evolution" /\ last' # last =>
            /\ last'.result = tracked(running_threads, ThreadId)
            /\ running_threads' = untrack(running_threads, ThreadId)
            /\ UNCHANGED <<workers, shutdown_flag, starting, threadDoc>>
       /\ \A w \in Workers :
            LeavingLoop(w) =>
                IF workers[w].pc = "check" THEN shutdown_flag
                ELSE threadDoc.status # "active"]_vars

\* stop returned True while a worker stood at its loop test, no callback made
\* yet; the thread is untracked, no shutdown was asked, and that worker has
\* since reloaded the thread and made a callback
C17_Witness ==
    /\ Called("stop_thread_evolution") /\ last.result
    /\ ~tracked(running_threads, ThreadId)
    /\ ~shutdown_flag
    /\ \E w \in Workers :
          /\ last.workers[w].pc = "check"
          /\ last.workers[w].rounds = 0
          /\ workers[w].pc = "sleep"
          /\ workers[w].rounds = 1

(***************************************************************************)
(* Claims on thread creation and goal identity                             *)
(***************************************************************************)
\* C21: in every thread built by create_thread from any list of initial
\* goals and then modified by add_evolution_step and update_goal_progress,
\* no two goals have the same goal_id.
C21_GoalIdsUnique ==
    \A i, j \in 1..Len(Goals) : i # j => Goals[i].goal_id # Goals[j].goal_id

\* C22 as claimed: every goal get_next_goals returns has all of its
\* dependencies completed.
C22_ReturnedGoalsHaveDepsCompleted ==
    Called("get_next_goals") =>
        \A k \in 1..Len(last.result) : DependenciesCompleted(Goals, last.result[k])

\* C22 as amended: every goal get_next_goals returns is in_progress or
\* pending, and every pending goal it returns has all of its dependencies
\* completed; goals in_progress are returned whatever their dependencies.
C22_ReturnedPendingGoalsHaveDepsCompleted ==
    Called("get_next_goals") =>
        \A k \in 1..Len(last.result) :
            LET i == last.result[k]
            IN  \/ Goals[i].status = "in_progress"
                \/ /\ Goals[i].status = "pending"
                   /\ DependenciesCompleted(Goals, i)
                   /\ WithStatus(Goals, "in_progress") = {}

\* get_next_goals has returned a pending goal that depends on a goal, which
\* earlier calls have completed
C22_Witness ==
    /\ Called("get_next_goals")
    /\ \E k \in 1..Len(last.result) :
          /\ Goals[last.result[k]].status = "pending"
          /\ Goals[last.result[k]].dependencies # <<>>
          /\ DependenciesCompleted(Goals, last.result[k])

(***************************************************************************)
(* Claims on the order of registration                                     *)
(***************************************************************************)
RegistrationEvents == {Event("registration", ai) : ai \in AIs}

\* the schema just registered scores higher than every schema registered before
NewcomerLeads ==
    \A k \in 1..Len(registry) :
        NegotiationScore(schemaFiles', last'.schema_id, current_primary_id(primary))
            > NegotiationScore(schemaFiles', registry[k], current_primary_id(primary))

\* C23: a successful register_protocol appends its entry to the registry,
\* then its registration event to the log, then negotiates: the log grows by
\* the registration event, followed by a primary_change event exactly when
\* the negotiation changed the primary, and the negotiation counts the new
\* schema (a new schema that outscores all others becomes the primary).
C23_RegistryThenEventThenNegotiation ==
    [][Registering =>
         /\ registry' = Append(registry, last'.schema_id)
         /\ \E event \in RegistrationEvents :
               IF primary' # primary
               THEN negLog' = negLog \o <<event, Event("primary_change", Harmonizer)>>
               ELSE negLog' = Append(negLog, event)
         /\ (registry # <<>> /\ NewcomerLeads) =>
               current_primary_id(primary') = last'.schema_id]_vars

\* the second schema registered outscored the first: the negotiation made it
\* primary, and the log ends with its registration and then the change
C23_Witness ==
    /\ Called("register_protocol") /\ last.result
    /\ Len(registry) = 2
    /\ registry[2] = last.schema_id
    /\ current_primary_id(primary) = last.schema_id
    /\ negLog = <<Event("registration", "ai1"), Event("registration", "ai1"),
                  Event("primary_change", Harmonizer)>>

(***************************************************************************)
(* Claims on the evolution workers                                         *)
(***************************************************************************)
Alive(w) == workers[w].pc \notin {"unborn", "dead"}

\* C24: once the shutdown flag is up, every worker that is running ends;
\* with the flag up a worker at its loop test leaves the loop, and a worker
\* asleep goes back to the loop test at its next tick.
C24_ShutdownEndsWorkers ==
    /\ \A w \in Workers : (shutdown_flag /\ Alive(w)) ~> (workers[w].pc = "dead")
    /\ [][shutdown_flag =>
            \A w \in Workers :
                /\ workers[w].pc = "check" => workers'[w].pc \in {"check", "cleanup"}
                /\ workers[w].pc = "sleep" => workers'[w].pc \in {"sleep", "check"}
                /\ (workers[w].pc = "sleep" /\ workers'[w] # workers[w])
                        => workers'[w].pc = "check"]_vars

\* the flag is up and a worker of an active thread, which had made a
\* callback round, has ended
C24_Witness ==
    /\ shutdown_flag
    /\ threadDoc.status = "active"
    /\ \E w \in Workers : workers[w].pc = "dead" /\ workers[w].rounds >= 1

(***************************************************************************)
(* Claims on updates and steps of a stored thread                          *)
(***************************************************************************)
\* the call being made is an update_goal_progress naming no goal of the thread
UpdatingAbsentGoal ==
    /\ last'.op = "update_goal_progress"
    /\ now' # now
    /\ \A i \in 1..Len(Goals) : Goals[i].goal_id # last'.goal_id

\* C25: update_goal_progress with a goal_id no goal of the loaded thread has
\* returns False and writes nothing: the stored thread document and the
\* active-threads index are unchanged.
C25_AbsentGoalWritesNothing ==
    [][UpdatingAbsentGoal =>
         /\ last'.result = FALSE
         /\ UNCHANGED <<threadDoc, activeIndex>>]_vars

\* a thread already changed by earlier calls was asked to update a goal it
\* does not have: the call returned False
C25_Witness ==
    /\ Called("update_goal_progress")
    /\ last.goal_id = AbsentId
    /\ last.result = FALSE
    /\ \E i \in 1..Len(Goals) : Goals[i].progress > 0
    /\ \A i \in 1..Len(Goals) : Goals[i].last_updated < now

Started(w) == workers[w].pc = "unborn" /\ workers'[w].pc # "unborn"

C28_EndedWorkerIsUntracked ==
    tracked(running_threads, ThreadId) =>
        workers[running_threads[ThreadId]].pc # "dead"

(***************************************************************************)
(* Claims on the primary pointer                                           *)
(***************************************************************************)
\* C29: a primary-pointer document that exists names a schema_id listed in
\* the registry, and set_primary_protocol with an id absent from the
\* registry returns failure and leaves the pointer as it was.
C29_PrimaryIsRegistered ==
    /\ [](primary # <<>> => current_primary_id(primary) \in Range(registry))
    /\ [][(/\ last'.op = "set_primary_protocol"
           /\ last' # last
           /\ last'.schema_id \notin Range(registry)) =>
               /\ ~last'.result
               /\ UNCHANGED <<primary, registry, negLog>>]_vars

\* set_primary_protocol was refused for an id that is not registered, the
\* pointer still naming the registered schema an earlier call had set
C29_Witness ==
    /\ Called("set_primary_protocol")
    /\ ~last.result
    /\ last.schema_id \notin Range(registry)
    /\ registry # <<>>
    /\ primary # <<>>
    /\ primary[1].decided_by = "ai2"
    /\ current_primary_id(primary) \in Range(registry)

(***************************************************************************)
(* Claims on the status of the thread                                      *)
(***************************************************************************)
AllGoalsCompleted == \A i \in 1..Len(Goals) : Goals[i].status = "completed"

\* C30: add_evolution_step and update_goal_progress leave the status of the
\* stored thread, and of its index entry, as it was, also when every goal
\* has become completed; a worker that reloads an active thread goes on to
\* the callback whether or not the goals are completed, and with no
\* shutdown no worker of an active thread leaves its loop.
C30_ThreadStatusStays ==
    /\ [][/\ (last'.op \in {"add_evolution_step", "update_goal_progress"}
              /\ now' # now) =>
                 /\ threadDoc'.status = threadDoc.status
                 /\ \A k \in 1..Len(activeIndex') :
                        activeIndex'[k].status = threadDoc.status
          /\ \A w \in Workers :
                 (/\ workers[w].pc = "load"
                  /\ workers'[w] # workers[w]
                  /\ threadDoc.status = "active") => workers'[w].pc = "callback"]_vars
    /\ []((threadDoc.status = "active" /\ ~shutdown_flag) =>
              \A w \in Workers : workers[w].pc \notin {"cleanup", "dead"})

\* the call that completed the last open goal has returned, the thread is
\* still active, and a worker started for it is running, two rounds made
C30_Witness ==
    /\ last.op \in {"add_evolution_step", "update_goal_progress"}
    /\ AllGoalsCompleted
    /\ \E i \in 1..Len(Goals) : Goals[i].completed_at = now
    /\ threadDoc.status = "active"
    /\ \E w \in Workers : Alive(w) /\ workers[w].rounds = MaxRounds

====
